---- MODULE Spec2Model ----
(***************************************************************************)
(* Model of the hierarchical graph assembly of the metrics dashboard:      *)
(* GraphDataService.loadHierarchy / buildGraph and the load handler of the *)
(* graph components, and the expand / collapse handlers of                 *)
(* ModuleFunctionGraphComponent.                                           *)
(*                                                                         *)
(* Strings are sequences of tokens: "a/x" is <<"a", "/", "x">>, the id     *)
(* `${file}::${cls}` is file \o <<"::">> \o cls.  Two strings are equal    *)
(* exactly when their token sequences are.  A JavaScript object or Map is  *)
(* a sequence of <<key, value>> pairs in insertion order.  An optional     *)
(* string (parentId) is <<>> when undefined and <<s>> when defined.  A     *)
(* render node is the id of its GraphNode; a Set is the sequence of its    *)
(* members in insertion order.                                             *)
(* Coordinates, radii, colours and loc are not modelled.                   *)
(***************************************************************************)
EXTENDS Integers, Sequences, FiniteSets, TLC

VARIABLES server, status, emitted, errored, loading, error,
          allNodes, allLinks, nodes, links, expandedNodes, timers, events, data, graph, pc,
          simulation

vars == <<server, status, emitted, errored, loading, error,
          allNodes, allLinks, nodes, links, expandedNodes, timers, events, data, graph, pc,
          simulation>>

(***************************************************************************)
(* String and Map helpers                                                  *)
(***************************************************************************)
RECURSIVE SplitFrom(_, _, _, _)
SplitFrom(s, sep, i, cur) ==
  IF i > Len(s) THEN <<cur>>
  ELSE IF s[i] = sep THEN <<cur>> \o SplitFrom(s, sep, i + 1, <<>>)
  ELSE SplitFrom(s, sep, i + 1, Append(cur, s[i]))

Split(s, sep) == SplitFrom(s, sep, 1, <<>>)

StartsWith(s, p) == Len(p) <= Len(s) /\ SubSeq(s, 1, Len(p)) = p

Range(s) == {s[i] : i \in 1..Len(s)}

MapHas(m, k) == \E i \in 1..Len(m) : m[i][1] = k

MapIdx(m, k) == CHOOSE i \in 1..Len(m) : m[i][1] = k

MapGet(m, k) == m[MapIdx(m, k)][2]

MapSet(m, k, v) ==
  IF MapHas(m, k) THEN [m EXCEPT ![MapIdx(m, k)] = <<k, v>>]
  ELSE Append(m, <<k, v>>)

MapValues(m) == [i \in 1..Len(m) |-> m[i][2]]

Undefined == <<>>

Truthy(opt) == opt # <<>> /\ opt[1] # <<>>

PushChild(nm, parentKey, childId) ==
  LET p == MapGet(nm, parentKey)
  IN MapSet(nm, parentKey, [p EXCEPT !.children = Append(@, childId)])

GraphNode(id, label, type, parentId, depth) ==
  [id |-> id, label |-> label, type |-> type, parentId |-> parentId,
   children |-> <<>>, depth |-> depth]

GraphLink(source, target, value, type, direction) ==
  [source |-> source, target |-> target, value |-> value, type |-> type,
   direction |-> direction]

(***************************************************************************)
(* 1. DIRECTORIES & FILES                                                  *)
(***************************************************************************)
\* data.files is an array, a { result: array } wrapper, or anything else
\* (such as the substituted default { result: {} }).
filePathsOf(d) ==
  IF d.files.kind = "array" THEN d.files.list
  ELSE IF d.files.kind = "result" THEN d.files.list
  ELSE [i \in 1..Len(d.dependencies) |-> d.dependencies[i][1]]

\* parts.forEach(part => ...): the directory chain of one path
RECURSIVE dirParts(_, _, _, _, _, _)
dirParts(parts, i, nm, currentPath, parentId, depth) ==
  IF i > Len(parts) THEN [nm |-> nm, parentId |-> parentId, depth |-> depth]
  ELSE
    LET part == parts[i]
        id == IF currentPath # <<>> THEN currentPath \o <<"/">> \o part ELSE part
        created == MapSet(nm, id, GraphNode(id, part, "DIRECTORY", parentId, depth))
        nm1 == IF MapHas(nm, id) THEN nm
               ELSE IF Truthy(parentId)
                      THEN IF \E j \in 1..Len(MapGet(created, parentId[1]).children) :
                                MapGet(created, parentId[1]).children[j] = id
                             THEN created
                             ELSE PushChild(created, parentId[1], id)
                      ELSE created
    IN dirParts(parts, i + 1, nm1, id, <<id>>, depth + 1)

\* one iteration of filePaths.forEach
addFilePath(nm, path) ==
  LET segs == Split(path, "/")
      parts == SubSeq(segs, 1, Len(segs) - 1)
      fileName == segs[Len(segs)]
      w == dirParts(parts, 1, nm, <<>>, Undefined, 0)
      withFile == MapSet(w.nm, path, GraphNode(path, fileName, "FILE", w.parentId, w.depth))
  IN IF Truthy(w.parentId) THEN PushChild(withFile, w.parentId[1], path) ELSE withFile

RECURSIVE addFilePaths(_, _, _)
addFilePaths(nm, paths, i) ==
  IF i > Len(paths) THEN nm ELSE addFilePaths(addFilePath(nm, paths[i]), paths, i + 1)

\* File Dependencies (Imports): one link of value 1 per import between known nodes
RECURSIVE importLinks(_, _, _, _)
importLinks(nm, src, imports, j) ==
  IF j > Len(imports) THEN <<>>
  ELSE (IF MapHas(nm, imports[j])
          THEN <<GraphLink(src, imports[j], 1, "DEPENDENCY", "none")>>
          ELSE <<>>) \o importLinks(nm, src, imports, j + 1)

RECURSIVE dependencyLinks(_, _, _)
dependencyLinks(nm, depGraph, i) ==
  IF i > Len(depGraph) THEN <<>>
  ELSE (IF MapHas(nm, depGraph[i][1])
          THEN importLinks(nm, depGraph[i][1], depGraph[i][2], 1)
          ELSE <<>>) \o dependencyLinks(nm, depGraph, i + 1)

buildDirectories(d) ==
  LET nm == addFilePaths(<<>>, filePathsOf(d), 1)
  IN [nodesMap |-> nm, links |-> dependencyLinks(nm, d.dependencies, 1)]

(***************************************************************************)
(* 2. CLASSES & METHODS                                                    *)
(***************************************************************************)
normalizeMethodName(name) == IF name = <<"constructor">> THEN <<"_constructor">> ELSE name

\* methods.forEach(method => ...) of one class; a member is its key name
RECURSIVE addMethods(_, _, _, _)
addMethods(nm, classId, methods, i) ==
  IF i > Len(methods) THEN nm
  ELSE
    LET methodName == methods[i]
        methodId == classId \o <<"::">> \o normalizeMethodName(methodName)
        classDepth == MapGet(nm, classId).depth
        methodNode == GraphNode(methodId,
                        IF methodName = <<"_constructor">> THEN <<"constructor">> ELSE methodName,
                        "FUNCTION", <<classId>>, classDepth + 1)
        nm1 == MapSet(nm, methodId, methodNode)
        nm2 == IF methodName = <<"constructor">>
                 THEN MapSet(nm1, classId \o <<"::">> \o <<"constructor">>, methodNode)
                 ELSE nm1
    IN addMethods(PushChild(nm2, classId, methodId), classId, methods, i + 1)

\* Object.entries(clsMap).forEach of one file
RECURSIVE addClasses(_, _, _, _)
addClasses(st, file, clsMap, i) ==
  IF i > Len(clsMap) THEN st
  ELSE
    LET className == clsMap[i][1]
        classId == file \o <<"::">> \o className
        existingFiles == IF MapHas(st.classToFilesMap, className)
                           THEN MapGet(st.classToFilesMap, className) ELSE <<>>
        files1 == IF file \in Range(existingFiles) THEN existingFiles
                  ELSE Append(existingFiles, file)
        parentDepth == MapGet(st.nodesMap, file).depth
        nm1 == MapSet(st.nodesMap, classId,
                      GraphNode(classId, className, "CLASS", <<file>>, parentDepth + 1))
        nm2 == PushChild(nm1, file, classId)
    IN addClasses([nodesMap |-> addMethods(nm2, classId, clsMap[i][2], 1),
                   classToFilesMap |-> MapSet(st.classToFilesMap, className, files1)],
                  file, clsMap, i + 1)

RECURSIVE classFiles(_, _, _)
classFiles(st, classesObj, i) ==
  IF i > Len(classesObj) THEN st
  ELSE classFiles(IF MapHas(st.nodesMap, classesObj[i][1])
                    THEN addClasses(st, classesObj[i][1], classesObj[i][2], 1)
                    ELSE st,
                  classesObj, i + 1)

buildClassToFileMap(d, nodesMap) ==
  classFiles([nodesMap |-> nodesMap, classToFilesMap |-> <<>>], d.classes, 1)

(***************************************************************************)
(* 3. STANDALONE FUNCTIONS                                                 *)
(***************************************************************************)
\* fileNode.children?.find(c => c.type === 'CLASS' && funcName starts with
\* c.label + '.' or c.label + '::'): the matching child ids, in order
parentClassOf(nm, file, funcName) ==
  LET ch == MapGet(nm, file).children
      hit(j) == /\ MapHas(nm, ch[j])
                /\ MapGet(nm, ch[j]).type = "CLASS"
                /\ \/ StartsWith(funcName, MapGet(nm, ch[j]).label \o <<".">>)
                   \/ StartsWith(funcName, MapGet(nm, ch[j]).label \o <<"::">>)
      hits == {j \in 1..Len(ch) : hit(j)}
  IN IF hits = {} THEN Undefined
     ELSE <<ch[CHOOSE j \in hits : \A k \in hits : j <= k]>>

RECURSIVE addFunctions(_, _, _, _)
addFunctions(st, file, funcNames, i) ==
  IF i > Len(funcNames) THEN st
  ELSE
    LET funcName == funcNames[i]
        parentClass == parentClassOf(st.nodesMap, file, funcName)
        id == file \o <<"::">> \o funcName
        dotParts == Split(funcName, ".")
        lastPart == dotParts[Len(dotParts)]
        label == IF lastPart # <<>> THEN lastPart ELSE funcName
        parentId == IF parentClass # Undefined THEN parentClass[1] ELSE file
        parentDepth == MapGet(st.nodesMap, parentId).depth
        nm1 == MapSet(st.nodesMap, id,
                      GraphNode(id, label, "FUNCTION", <<parentId>>, parentDepth + 1))
    IN addFunctions(IF MapHas(st.nodesMap, id) THEN st
                    ELSE [nodesMap |-> PushChild(nm1, parentId, id),
                          functionToFileMap |-> MapSet(st.functionToFileMap, funcName, file)],
                    file, funcNames, i + 1)

RECURSIVE functionFiles(_, _, _)
functionFiles(st, funcsObj, i) ==
  IF i > Len(funcsObj) THEN st
  ELSE functionFiles(IF MapHas(st.nodesMap, funcsObj[i][1])
                       THEN addFunctions(st, funcsObj[i][1], funcsObj[i][2], 1)
                       ELSE st,
                     funcsObj, i + 1)

buildFunctionToFileMap(d, nodesMap) ==
  functionFiles([nodesMap |-> nodesMap, functionToFileMap |-> <<>>], d.funcs, 1)

(***************************************************************************)
(* 4. HIERARCHICAL LINK AGGREGATION                                        *)
(***************************************************************************)
linkKeyOf(src, tgt) == src \o <<"->">> \o tgt

\* const [srcId, targetId] = linkKey.split('->')
splitLinkKey(key) ==
  LET p == Split(key, "->")
  IN [src |-> p[1], tgt |-> IF Len(p) >= 2 THEN p[2] ELSE <<>>]

\* existing = map.get(key) || { count: 0, ... }; map.set(key, { count: existing.count + n, direction })
accumulate(lm, key, n, direction) ==
  LET existing == IF MapHas(lm, key) THEN MapGet(lm, key).count ELSE 0
  IN MapSet(lm, key, [count |-> existing + n, direction |-> direction])

\* xLinks.forEach((linkData, linkKey) => links.push({...}))
linksOfMap(lm, type) ==
  [i \in 1..Len(lm) |->
     GraphLink(splitLinkKey(lm[i][1]).src, splitLinkKey(lm[i][1]).tgt,
               lm[i][2].count, type, lm[i][2].direction)]

\* the first candidate file whose `${file}::${className}` is registered,
\* else the first candidate, else undefined
\* the last candidate file instead of the first registered one
findClassFileLast(classToFilesMap, nm, className) ==
  IF ~MapHas(classToFilesMap, className) THEN Undefined
  ELSE LET files == MapGet(classToFilesMap, className)
       IN IF Len(files) = 0 THEN Undefined ELSE <<files[Len(files)]>>

findClassFile(classToFilesMap, nm, className) ==
  IF ~MapHas(classToFilesMap, className) THEN Undefined
  ELSE
    LET files == MapGet(classToFilesMap, className)
        ok == {i \in 1..Len(files) : MapHas(nm, files[i] \o <<"::">> \o className)}
    IN IF Len(files) = 0 THEN Undefined
       ELSE IF ok = {} THEN <<files[1]>>
       ELSE <<files[CHOOSE i \in ok : \A k \in ok : i <= k]>>

\* --- 4.0 method level -------------------------------------------------
\* Object.entries(targetMethods).forEach of one fan-out / fan-in entry;
\* out = TRUE: srcMethod -> other, FALSE: other -> srcMethod
RECURSIVE methodEntries(_, _, _, _, _, _, _)
methodEntries(lm, nm, srcMethodId, otherClassId, entries, out, i) ==
  IF i > Len(entries) THEN lm
  ELSE
    LET otherId == otherClassId \o <<"::">> \o normalizeMethodName(entries[i][1])
        key == IF out THEN linkKeyOf(srcMethodId, otherId) ELSE linkKeyOf(otherId, srcMethodId)
        lm1 == IF ~MapHas(nm, otherId) \/ srcMethodId = otherId THEN lm
               ELSE accumulate(lm, key, entries[i][2], IF out THEN "fan-out" ELSE "fan-in")
    IN methodEntries(lm1, nm, srcMethodId, otherClassId, entries, out, i + 1)

\* Object.entries(fanOut).forEach / Object.entries(fanIn).forEach of one method
RECURSIVE methodFan(_, _, _, _, _, _, _)
methodFan(lm, nm, c2f, srcMethodId, fan, out, i) ==
  IF i > Len(fan) THEN lm
  ELSE
    LET otherFile == findClassFile(c2f, nm, fan[i][1])
        otherClassId == otherFile[1] \o <<"::">> \o fan[i][1]
        lm1 == IF otherFile = Undefined THEN lm
               ELSE IF ~MapHas(nm, otherClassId) THEN lm
               ELSE methodEntries(lm, nm, srcMethodId, otherClassId, fan[i][2], out, 1)
    IN methodFan(lm1, nm, c2f, srcMethodId, fan, out, i + 1)

RECURSIVE couplingMethods(_, _, _, _, _, _)
couplingMethods(lm, nm, c2f, classId, methods, i) ==
  IF i > Len(methods) THEN lm
  ELSE
    LET srcMethodId == classId \o <<"::">> \o normalizeMethodName(methods[i].name)
        lm1 == IF ~MapHas(nm, srcMethodId) THEN lm
               ELSE methodFan(methodFan(lm, nm, c2f, srcMethodId, methods[i].fanOut, TRUE, 1),
                              nm, c2f, srcMethodId, methods[i].fanIn, FALSE, 1)
    IN couplingMethods(lm1, nm, c2f, classId, methods, i + 1)

RECURSIVE couplingClasses(_, _, _, _, _, _)
couplingClasses(lm, nm, c2f, file, clsMap, i) ==
  IF i > Len(clsMap) THEN lm
  ELSE
    LET classId == file \o <<"::">> \o clsMap[i][1]
        lm1 == IF ~MapHas(nm, classId) THEN lm
               ELSE couplingMethods(lm, nm, c2f, classId, clsMap[i][2], 1)
    IN couplingClasses(lm1, nm, c2f, file, clsMap, i + 1)

RECURSIVE couplingFiles(_, _, _, _, _)
couplingFiles(lm, nm, c2f, coupling, i) ==
  IF i > Len(coupling) THEN lm
  ELSE couplingFiles(couplingClasses(lm, nm, c2f, coupling[i][1], coupling[i][2], 1),
                     nm, c2f, coupling, i + 1)

\* returns the methodLinks map; its links are pushed by buildGraph below
buildMethodLevelCoupling(d, nm, c2f) == couplingFiles(<<>>, nm, c2f, d.classCoupling, 1)

\* --- 4.1 function level -----------------------------------------------
RECURSIVE functionFan(_, _, _, _, _, _, _)
functionFan(lm, nm, f2f, srcFuncId, fan, out, i) ==
  IF i > Len(fan) THEN lm
  ELSE
    LET name == fan[i][1]
        otherId == MapGet(f2f, name) \o <<"::">> \o name
        key == IF out THEN linkKeyOf(srcFuncId, otherId) ELSE linkKeyOf(otherId, srcFuncId)
        lm1 == IF ~MapHas(f2f, name) THEN lm
               ELSE IF ~MapHas(nm, otherId) \/ srcFuncId = otherId THEN lm
               ELSE accumulate(lm, key, fan[i][2], IF out THEN "fan-out" ELSE "fan-in")
    IN functionFan(lm1, nm, f2f, srcFuncId, fan, out, i + 1)

RECURSIVE couplingFunctions(_, _, _, _, _, _)
couplingFunctions(lm, nm, f2f, srcFile, fnMap, i) ==
  IF i > Len(fnMap) THEN lm
  ELSE
    LET srcFuncId == srcFile \o <<"::">> \o fnMap[i][1]
        lm1 == IF ~MapHas(nm, srcFuncId) THEN lm
               ELSE functionFan(functionFan(lm, nm, f2f, srcFuncId, fnMap[i][2].fanOut, TRUE, 1),
                                nm, f2f, srcFuncId, fnMap[i][2].fanIn, FALSE, 1)
    IN couplingFunctions(lm1, nm, f2f, srcFile, fnMap, i + 1)

RECURSIVE functionCouplingFiles(_, _, _, _, _)
functionCouplingFiles(lm, nm, f2f, fnCoupling, i) ==
  IF i > Len(fnCoupling) THEN lm
  ELSE functionCouplingFiles(
         couplingFunctions(lm, nm, f2f, fnCoupling[i][1], fnCoupling[i][2], 1),
         nm, f2f, fnCoupling, i + 1)

buildFunctionLevelCoupling(fnCoupling, nm, f2f) ==
  functionCouplingFiles(<<>>, nm, f2f, fnCoupling, 1)

\* --- 4.2 class level --------------------------------------------------
\* methodLinks.forEach: a method link between methods of different parents
RECURSIVE classFromMethodLinks(_, _, _, _)
classFromMethodLinks(cl, nm, methodLinks, i) ==
  IF i > Len(methodLinks) THEN cl
  ELSE
    LET k == splitLinkKey(methodLinks[i][1])
        srcClassId == MapGet(nm, k.src).parentId
        targetClassId == MapGet(nm, k.tgt).parentId
        cl1 == IF ~MapHas(nm, k.src) \/ ~MapHas(nm, k.tgt) THEN cl
               ELSE IF Truthy(srcClassId) /\ Truthy(targetClassId)
                       /\ srcClassId # targetClassId
                 THEN accumulate(cl, linkKeyOf(srcClassId[1], targetClassId[1]),
                                 methodLinks[i][2].count, methodLinks[i][2].direction)
                 ELSE cl
    IN classFromMethodLinks(cl1, nm, methodLinks, i + 1)

typeOfOpt(nm, opt) ==
  IF opt # Undefined /\ MapHas(nm, opt[1]) THEN MapGet(nm, opt[1]).type ELSE "undefined"

\* functionLinks.forEach: a function link between functions parented to two classes
RECURSIVE classFromFunctionLinks(_, _, _, _)
classFromFunctionLinks(cl, nm, functionLinks, i) ==
  IF i > Len(functionLinks) THEN cl
  ELSE
    LET k == splitLinkKey(functionLinks[i][1])
        srcClassId == MapGet(nm, k.src).parentId
        targetClassId == MapGet(nm, k.tgt).parentId
        cl1 == IF ~MapHas(nm, k.src) \/ ~MapHas(nm, k.tgt) THEN cl
               ELSE IF typeOfOpt(nm, srcClassId) = "CLASS"
                       /\ typeOfOpt(nm, targetClassId) = "CLASS"
                       /\ srcClassId # targetClassId
                 THEN accumulate(cl, linkKeyOf(srcClassId[1], targetClassId[1]),
                                 functionLinks[i][2].count, functionLinks[i][2].direction)
                 ELSE cl
    IN classFromFunctionLinks(cl1, nm, functionLinks, i + 1)

\* Object.values(targetMethods).reduce((sum, val) => sum + val, 0)
RECURSIVE totalCount(_, _)
totalCount(entries, i) ==
  IF i > Len(entries) THEN 0 ELSE entries[i][2] + totalCount(entries, i + 1)

\* "Third, add direct class-coupling metric links": one fan-out / fan-in object
RECURSIVE directFan(_, _, _, _, _, _, _)
directFan(cl, nm, c2f, srcClassId, fan, out, i) ==
  IF i > Len(fan) THEN cl
  ELSE
    LET otherFile == findClassFile(c2f, nm, fan[i][1])
        otherClassId == otherFile[1] \o <<"::">> \o fan[i][1]
        key == IF out THEN linkKeyOf(srcClassId, otherClassId)
               ELSE linkKeyOf(otherClassId, srcClassId)
        cl1 == IF otherFile = Undefined THEN cl
               ELSE IF ~MapHas(nm, otherClassId) \/ srcClassId = otherClassId THEN cl
               ELSE accumulate(cl, key, totalCount(fan[i][2], 1),
                               IF out THEN "fan-out" ELSE "fan-in")
    IN directFan(cl1, nm, c2f, srcClassId, fan, out, i + 1)

RECURSIVE directMethods(_, _, _, _, _, _)
directMethods(cl, nm, c2f, srcClassId, methods, i) ==
  IF i > Len(methods) THEN cl
  ELSE directMethods(
         directFan(directFan(cl, nm, c2f, srcClassId, methods[i].fanOut, TRUE, 1),
                   nm, c2f, srcClassId, methods[i].fanIn, FALSE, 1),
         nm, c2f, srcClassId, methods, i + 1)

RECURSIVE directClasses(_, _, _, _, _, _)
directClasses(cl, nm, c2f, file, clsMap, i) ==
  IF i > Len(clsMap) THEN cl
  ELSE
    LET srcClassId == file \o <<"::">> \o clsMap[i][1]
        cl1 == IF ~MapHas(nm, srcClassId) THEN cl
               ELSE directMethods(cl, nm, c2f, srcClassId, clsMap[i][2], 1)
    IN directClasses(cl1, nm, c2f, file, clsMap, i + 1)

RECURSIVE directFiles(_, _, _, _, _)
directFiles(cl, nm, c2f, coupling, i) ==
  IF i > Len(coupling) THEN cl
  ELSE directFiles(directClasses(cl, nm, c2f, coupling[i][1], coupling[i][2], 1),
                   nm, c2f, coupling, i + 1)

buildClassLevelCoupling(methodLinks, nm, functionLinks, d, c2f) ==
  directFiles(
    classFromFunctionLinks(classFromMethodLinks(<<>>, nm, methodLinks, 1),
                           nm, functionLinks, 1),
    nm, c2f, d.classCoupling, 1)

\* --- 4.3 file level ---------------------------------------------------
RECURSIVE fileFromClassLinks(_, _, _, _)
fileFromClassLinks(fl, nm, classLinks, i) ==
  IF i > Len(classLinks) THEN fl
  ELSE
    LET k == splitLinkKey(classLinks[i][1])
        srcFileId == MapGet(nm, k.src).parentId
        targetFileId == MapGet(nm, k.tgt).parentId
        fl1 == IF ~MapHas(nm, k.src) \/ ~MapHas(nm, k.tgt) THEN fl
               ELSE IF MapGet(nm, k.src).type # "CLASS" \/ MapGet(nm, k.tgt).type # "CLASS"
                 THEN fl
               ELSE IF srcFileId # targetFileId
                 THEN accumulate(fl, linkKeyOf(srcFileId[1], targetFileId[1]),
                                 classLinks[i][2].count, classLinks[i][2].direction)
                 ELSE fl
    IN fileFromClassLinks(fl1, nm, classLinks, i + 1)

\* only when BOTH functions are standalone (parent is a FILE)
RECURSIVE fileFromFunctionLinks(_, _, _, _)
fileFromFunctionLinks(fl, nm, functionLinks, i) ==
  IF i > Len(functionLinks) THEN fl
  ELSE
    LET k == splitLinkKey(functionLinks[i][1])
        srcFileId == MapGet(nm, k.src).parentId
        targetFileId == MapGet(nm, k.tgt).parentId
        fl1 == IF ~MapHas(nm, k.src) \/ ~MapHas(nm, k.tgt) THEN fl
               ELSE IF typeOfOpt(nm, srcFileId) = "FILE" /\ typeOfOpt(nm, targetFileId) = "FILE"
                       /\ srcFileId # targetFileId
                 THEN accumulate(fl, linkKeyOf(srcFileId[1], targetFileId[1]),
                                 functionLinks[i][2].count, functionLinks[i][2].direction)
                 ELSE fl
    IN fileFromFunctionLinks(fl1, nm, functionLinks, i + 1)

buildFileLevelCouplingClassesOnly(classLinks, nm, functionLinks) ==
  fileFromClassLinks(<<>>, nm, classLinks, 1)

buildFileLevelCoupling(classLinks, nm, functionLinks) ==
  fileFromFunctionLinks(fileFromClassLinks(<<>>, nm, classLinks, 1), nm, functionLinks, 1)

(***************************************************************************)
(* buildGraph: the node list is Array.from(nodesMap.values()); the links   *)
(* are the import links, then the method, function, class and file level.  *)
(***************************************************************************)
buildGraph(d) ==
  LET dirs == buildDirectories(d)
      cls == buildClassToFileMap(d, dirs.nodesMap)
      fns == buildFunctionToFileMap(d, cls.nodesMap)
      nm == fns.nodesMap
      methodLinks == buildMethodLevelCoupling(d, nm, cls.classToFilesMap)
      functionLinks == buildFunctionLevelCoupling(d.funcCoupling, nm, fns.functionToFileMap)
      classLinks == buildClassLevelCoupling(methodLinks, nm, functionLinks, d,
                                            cls.classToFilesMap)
      fileLinks == buildFileLevelCoupling(classLinks, nm, functionLinks)
  IN [nodes |-> MapValues(nm),
      links |-> dirs.links \o linksOfMap(methodLinks, "CALL")
                  \o linksOfMap(functionLinks, "CALL")
                  \o linksOfMap(classLinks, "COUPLING")
                  \o linksOfMap(fileLinks, "DEPENDENCY")]

(***************************************************************************)
(* Bounded input universe                                                  *)
(***************************************************************************)
MaxFiles == 2     \* longest file list
MaxImports == 2   \* longest import list of one file
MaxCount == 2     \* largest fan-in / fan-out count
MaxEvents == 4    \* clicks and button presses after the load

F1 == <<"a", "/", "x">>
F2 == <<"a", "/", "y">>
FAbs == <<"/", "a", "/", "x">>
PathUniverse == {F1, F2, FAbs}
DirA == <<"a">>

SeqsUpTo(S, n) == UNION {[1..k -> S] : k \in 0..n}

NoDeps == <<>>
NoResult == <<>>

FilesChoices ==
  {[kind |-> k, list |-> l] : k \in {"array", "result"}, l \in SeqsUpTo(PathUniverse, MaxFiles)}
    \cup {[kind |-> "other", list |-> <<>>]}

DepChoices == {<< <<F1, imports>> >> : imports \in SeqsUpTo({F1, F2}, MaxImports)} \cup {NoDeps}

ClsC == <<"C">>
ClsD == <<"D">>
MethM == <<"m">>
MethN == <<"n">>
MethCtor == <<"constructor">>
FnF == <<"f">>
FnG == <<"g">>

\* classes-per-file: result[file][className] = list of member key names
RegistryClassChoices ==
  { NoResult,
    << <<F1, << <<ClsC, <<MethM, MethCtor>> >> >> >> >>,
    << <<F1, << <<ClsC, <<MethM>> >> >> >>, <<F2, << <<ClsC, <<MethM>> >> >> >> >>,
    << <<F2, << <<ClsC, <<MethM>> >>, <<ClsD, <<MethN>> >> >> >> >>,
    \* an entry keyed by the directory of the files
    << <<DirA, << <<ClsC, <<MethM>> >> >> >> >> }

\* functions-per-file: result[file] = list of function names
RegistryFuncChoices ==
  { NoResult,
    << <<F1, <<FnF, <<"C", ".", "m">> >> >> >>,
    << <<F1, << <<"C", "::", "m">>, <<"C", ".", "n">> >> >>, <<F2, <<FnG>> >> >> }

RegistryPayloads ==
  {[files |-> f, dependencies |-> dp, classes |-> c, classCoupling |-> NoResult,
    funcs |-> fn, funcCoupling |-> NoResult] :
      f \in FilesChoices, dp \in DepChoices, c \in RegistryClassChoices,
      fn \in RegistryFuncChoices}

\* coupling family: F1 declares class C or nothing, F2 one class or nothing
MemberLists == {<<MethM>>, <<MethCtor>>, <<MethM, MethN>>}

CouplingClassChoices ==
  {l1 \o l2 :
     l1 \in {<<>>, << <<F1, << <<ClsC, <<MethM>> >> >> >> >>},
     l2 \in {<<>>} \cup {<< <<F2, << <<c, ms>> >> >> >> : c \in {ClsC, ClsD}, ms \in MemberLists}}
  \cup
  \* class D declared in both files, the caller's file first
  {<< <<F1, << <<ClsC, <<MethM>> >>, <<ClsD, <<MethM>> >> >> >>,
      <<F2, << <<ClsD, <<MethM>> >> >> >> >>,
   \* class D declared under the key of the directory of the files
   << <<F1, << <<ClsC, <<MethM>> >> >> >>,
      <<DirA, << <<ClsD, <<MethM>> >> >> >> >>}

ReportModes == {"fan-out", "fan-in", "both"}

\* One interaction "C.m of F1 calls tc.tm n times", reported by the caller's
\* fan-out, by the callee's fan-in (the class-coupling metric mirrors every
\* fan-out into the callee's fan-in), or by both.
classCouplingOf(tc, tm, n, mode) ==
  LET out == << <<F1, << <<ClsC, <<[name |-> MethM,
                                     fanOut |-> << <<tc, << <<tm, n>> >> >> >>,
                                     fanIn |-> <<>>]>> >> >> >> >>
      in == << <<F2, << <<tc, <<[name |-> tm,
                                  fanOut |-> <<>>,
                                  fanIn |-> << <<ClsC, << <<MethM, n>> >> >> >>]>> >> >> >> >>
  IN IF mode = "fan-out" THEN out ELSE IF mode = "fan-in" THEN in ELSE out \o in

MethUnderscoreCtor == <<"_constructor">>

ClassCouplingChoices ==
  {NoResult, classCouplingOf(ClsD, MethUnderscoreCtor, 1, "fan-out")} \cup
  {classCouplingOf(tc, tm, n, mode) :
     tc \in {ClsC, ClsD}, tm \in {MethM, MethCtor}, n \in 1..MaxCount, mode \in ReportModes}

\* One interaction "f of F1 calls g of F2 n times" between standalone functions
funcCouplingOf(n, mode) ==
  LET out == << <<F1, << <<FnF, [fanOut |-> << <<FnG, n>> >>, fanIn |-> <<>>]>> >> >> >>
      in == << <<F2, << <<FnG, [fanOut |-> <<>>, fanIn |-> << <<FnF, n>> >>]>> >> >> >>
  IN IF mode = "fan-out" THEN out ELSE IF mode = "fan-in" THEN in ELSE out \o in

FuncChoices ==
  {[funcs |-> NoResult, funcCoupling |-> NoResult]} \cup
  {[funcs |-> << <<F1, <<FnF>> >>, <<F2, <<FnG>> >> >>, funcCoupling |-> funcCouplingOf(n, mode)] :
     n \in 1..MaxCount, mode \in ReportModes} \cup
  {[funcs |-> << <<F1, <<FnF>> >> >>, funcCoupling |-> funcCouplingOf(1, mode)] :
     mode \in ReportModes}

CouplingPayloads ==
  {[files |-> [kind |-> "array", list |-> <<F1, F2>>], dependencies |-> dp,
    classes |-> c, classCoupling |-> cc, funcs |-> fc.funcs,
    funcCoupling |-> fc.funcCoupling] :
      dp \in {NoDeps, << <<F1, <<F2>> >> >>}, c \in CouplingClassChoices,
      cc \in ClassCouplingChoices, fc \in FuncChoices}

Payloads == RegistryPayloads \cup CouplingPayloads

(***************************************************************************)
(* loadHierarchy: one request per metric, joined by forkJoin               *)
(***************************************************************************)
Metrics == {"files", "classes-per-file", "class-coupling", "functions-per-file",
            "function-coupling"}

\* what the metrics server can be asked for
Endpoints == Metrics \cup {"dependencies"}

\* catchError(() => of({ result: {} })): for `files` the default is neither
\* an array nor a wrapper of one; for the others it is an empty result
defaultPayload(name) ==
  IF name = "files" THEN [kind |-> "other", list |-> <<>>] ELSE NoResult

\* the notification the inner observable req(name) delivers to forkJoin
reqNoCatch(name, ok, response) ==
  IF ok THEN [err |-> FALSE, value |-> response]
  ELSE [err |-> TRUE, value |-> defaultPayload(name)]

req(name, ok, response) ==
  IF ok THEN [err |-> FALSE, value |-> response]
  ELSE [err |-> FALSE, value |-> defaultPayload(name)]

\* forkJoin emits once, when every inner observable has emitted and completed
forkJoinReadyFirst(st) == \E m \in Metrics : st[m] \in {"ok", "failed"}

forkJoinReadyTimeout(st) == \A m \in Metrics : st[m] \in {"ok", "failed", "hung"}

forkJoinReady(st) == \A m \in Metrics : st[m] \in {"ok", "failed"}

\* the object forkJoin emits; `dependencies` is not among the requests
joined(st, srv) ==
  LET v(m) == req(m, st[m] = "ok", srv[m]).value
  IN [files |-> v("files"), dependencies |-> NoDeps,
      classes |-> v("classes-per-file"), classCoupling |-> v("class-coupling"),
      funcs |-> v("functions-per-file"), funcCoupling |-> v("function-coupling")]

(***************************************************************************)
(* The graph component: loadGraph's subscriber and updateLinks             *)
(***************************************************************************)
\* data.nodes.forEach(n => this.allNodesMap.set(n.id, n))
RECURSIVE setAll(_, _, _)
setAll(m, ns, i) ==
  IF i > Len(ns) THEN m ELSE setAll(MapSet(m, ns[i].id, ns[i]), ns, i + 1)

\* data.nodes.filter(n => !n.parentId), as the ids of the render nodes
RECURSIVE rootIds(_, _)
rootIds(ns, i) ==
  IF i > Len(ns) THEN <<>>
  ELSE (IF Truthy(ns[i].parentId) THEN <<>> ELSE <<ns[i].id>>) \o rootIds(ns, i + 1)

\* findVisible: the id itself when visible, else the nearest visible ancestor
RECURSIVE walkUp(_, _, _)
walkUp(all, visible, id) ==
  IF ~MapHas(all, id) THEN Undefined
  ELSE LET curr == MapGet(all, id)
       IN IF ~Truthy(curr.parentId) THEN Undefined
          ELSE IF curr.parentId[1] \in visible THEN curr.parentId
          ELSE walkUp(all, visible, curr.parentId[1])

\* the endpoint itself, whether it is visible or not
findVisibleSelf(all, visible, id) == <<id>>

findVisible(all, visible, id) ==
  IF id \in visible THEN <<id>> ELSE walkUp(all, visible, id)

Nullish(a, b) == IF a # Undefined THEN a ELSE b

OrZero(a) == IF a = Undefined THEN 0 ELSE a[1]

\* this.allLinks.forEach(l => ...): GraphDataService never sets fanIn / fanOut
RECURSIVE renderLinks(_, _, _, _, _)
renderLinks(newLinks, all, visible, ls, i) ==
  IF i > Len(ls) THEN newLinks
  ELSE
    LET l == ls[i]
        sourceId == findVisible(all, visible, l.source)
        targetId == findVisible(all, visible, l.target)
        key == sourceId[1] \o <<"-">> \o targetId[1]
        existing == MapGet(newLinks, key)
        mergedIn == OrZero(existing.fanIn) + OrZero(Undefined)
        mergedOut == OrZero(existing.fanOut) + OrZero(Undefined)
        nl == IF Truthy(sourceId) /\ Truthy(targetId) /\ sourceId # targetId
                THEN IF ~MapHas(newLinks, key)
                       THEN MapSet(newLinks, key,
                              [source |-> sourceId[1], target |-> targetId[1], value |-> 1,
                               fanIn |-> Undefined, fanOut |-> Undefined,
                               couplingValue |-> Nullish(Undefined, Nullish(Undefined, <<l.value>>))[1]])
                       ELSE MapSet(newLinks, key,
                              [existing EXCEPT !.fanIn = <<mergedIn>>, !.fanOut = <<mergedOut>>,
                                               !.couplingValue = mergedIn + mergedOut])
                ELSE newLinks
    IN renderLinks(nl, all, visible, ls, i + 1)

updateLinks(all, ls, visibleIds) == MapValues(renderLinks(<<>>, all, Range(visibleIds), ls, 1))

NoGraph == <<>>

(***************************************************************************)
(* The graph component: expand, collapse, expandAll, collapseAll           *)
(***************************************************************************)
SetAdd(set, x) == IF x \in Range(set) THEN set ELSE Append(set, x)

SetDelete(set, x) == SelectSeq(set, LAMBDA y : y # x)

\* walks the parent chain of nodeId while it has a (non-empty) parentId
RECURSIVE isDescendant(_, _, _)
isDescendant(all, nodeId, ancestorId) ==
  IF ~MapHas(all, nodeId) THEN FALSE
  ELSE LET curr == MapGet(all, nodeId)
       IN IF ~Truthy(curr.parentId) THEN FALSE
          ELSE IF curr.parentId[1] = ancestorId THEN TRUE
          ELSE isDescendant(all, curr.parentId[1], ancestorId)

RECURSIVE getNodeDepth(_, _)
getNodeDepth(all, nodeId) ==
  IF ~MapHas(all, nodeId) THEN 0
  ELSE IF ~Truthy(MapGet(all, nodeId).parentId) THEN 0
  ELSE 1 + getNodeDepth(all, MapGet(all, nodeId).parentId[1])

\* updateSimulation: the links are recomputed from the new render nodes
updateSimulation(all, ls, ns) == updateLinks(all, ls, ns)

\* handleNodeClick without the filter that drops the clicked node
expandKeepingParent(all, ns, id) == ns \o MapGet(all, id).children

\* handleNodeClick: the clicked node is replaced by its children
expand(all, ns, id) == SelectSeq(ns, LAMBDA n : n # id) \o MapGet(all, id).children

\* collapse that drops the direct children only
collapseDirectChildrenOnly(all, ns, parentId) ==
  Append(SelectSeq(ns, LAMBDA n : ~(MapHas(all, n) /\ MapGet(all, n).parentId = <<parentId>>)),
         parentId)

\* collapse: every descendant is dropped and the parent is pushed
collapse(all, ns, parentId) ==
  Append(SelectSeq(ns, LAMBDA n : ~isDescendant(all, n, parentId)), parentId)

\* calculateEnclosures: the expanded ids that have a direct child among the
\* render nodes; these are the circles whose click calls collapse
calculateEnclosures(all, ns, expanded) ==
  SelectSeq(expanded,
            LAMBDA p : \E i \in 1..Len(ns) :
                          MapHas(all, ns[i]) /\ MapGet(all, ns[i]).parentId = <<p>>)

batchSize == 5

\* delay += 500 and delay += 300, in tenths of a second
expandDelay == 5

collapseDelay == 3

\* setTimeout(..., delay) for the slices ids.slice(i, i + batchSize),
\* i = 0, batchSize, ...: the pending callbacks with the time left to each;
\* call tells apart the invocations whose closures they are
RECURSIVE batches(_, _, _, _, _)
batches(ids, kind, delay, step, call) ==
  IF ids = <<>> THEN <<>>
  ELSE IF Len(ids) <= batchSize
         THEN <<[kind |-> kind, ids |-> ids, delay |-> delay, call |-> call]>>
  ELSE <<[kind |-> kind, ids |-> SubSeq(ids, 1, batchSize), delay |-> delay, call |-> call]>>
         \o batches(SubSeq(ids, batchSize + 1, Len(ids)), kind, delay + step, step, call)

\* allNodesMap.forEach: the ids of the nodes that have children, in Map order
nodesToExpand(all) ==
  LET withChildren == SelectSeq(all, LAMBDA e : Len(e[2].children) > 0)
  IN [i \in 1..Len(withChildren) |-> withChildren[i][2].id]

\* Array.from(expandedNodes).sort(deepest first); the sort is stable
RECURSIVE byDepthFrom(_, _, _)
byDepthFrom(all, expanded, d) ==
  SelectSeq(expanded, LAMBDA id : getNodeDepth(all, id) = d)
    \o (IF d = 0 THEN <<>> ELSE byDepthFrom(all, expanded, d - 1))

toCollapse(all, expanded) == byDepthFrom(all, expanded, Len(all))

\* splice(findIndex(n => n.id === nodeId), 1): the first occurrence only
removeFirst(ns, id) ==
  LET idx == {i \in 1..Len(ns) : ns[i] = id}
      first == CHOOSE i \in idx : \A k \in idx : i <= k
  IN SubSeq(ns, 1, first - 1) \o SubSeq(ns, first + 1, Len(ns))

\* batch.forEach of expandAll, on [nodes, expanded]
RECURSIVE expandBatch(_, _, _, _)
expandBatch(all, v, ids, i) ==
  IF i > Len(ids) THEN v
  ELSE
    LET nodeId == ids[i]
        v1 == IF ~MapHas(all, nodeId) \/ nodeId \in Range(v.expanded) THEN v
              ELSE [expanded |-> Append(v.expanded, nodeId),
                    nodes |-> IF nodeId \in Range(v.nodes)
                                THEN removeFirst(v.nodes, nodeId) \o MapGet(all, nodeId).children
                                ELSE v.nodes]
    IN expandBatch(all, v1, ids, i + 1)

\* batch.forEach of collapseAll, on [nodes, expanded]
RECURSIVE collapseBatch(_, _, _, _)
collapseBatch(all, v, ids, i) ==
  IF i > Len(ids) THEN v
  ELSE
    LET nodeId == ids[i]
        v1 == IF nodeId \in Range(v.expanded)
                THEN [expanded |-> SetDelete(v.expanded, nodeId),
                      nodes |-> collapse(all, v.nodes, nodeId)]
                ELSE v
    IN collapseBatch(all, v1, ids, i + 1)

(***************************************************************************)
(* Specification Spec: one load of the graph view                          *)
(***************************************************************************)
ServerFiles == {[kind |-> "array", list |-> <<F1, F2>>], [kind |-> "result", list |-> <<FAbs, F2>>]}

\* the import graph the server holds: a/y imports a/x
ServerDeps == << <<F2, <<F1>> >> >>

ServerPayloads ==
  {[m \in Endpoints |->
      CASE m = "files" -> f
        [] m = "classes-per-file" -> << <<F1, << <<ClsC, <<MethM>> >> >> >>,
                                        <<F2, << <<ClsD, <<MethM, MethCtor>> >> >> >> >>
        [] m = "class-coupling" -> classCouplingOf(ClsD, MethM, n, "both")
        [] m = "functions-per-file" -> << <<F1, <<FnF>> >>, <<F2, <<FnG>> >> >>
        [] m = "function-coupling" -> funcCouplingOf(n, "fan-out")
        [] m = "dependencies" -> ServerDeps] :
     f \in ServerFiles, n \in 1..MaxCount}

Init ==
  /\ server \in ServerPayloads
  /\ status = [m \in Metrics |-> "pending"]
  /\ emitted = 0
  /\ errored = FALSE
  /\ loading = TRUE
  /\ error = "none"
  /\ allNodes = <<>>
  /\ allLinks = <<>>
  /\ nodes = <<>>
  /\ links = <<>>
  /\ expandedNodes = <<>>
  /\ timers = <<>>
  /\ events = 0
  /\ data = NoGraph
  /\ graph = NoGraph
  /\ pc = "loading"
  /\ simulation = "none"

\* subscribe({ next }): runs inside the settlement that completes forkJoin
Deliver(st) ==
  /\ data' = <<joined(st, server)>>
  /\ graph' = <<buildGraph(data'[1])>>
  /\ emitted' = emitted + 1
  /\ allNodes' = setAll(allNodes, graph'[1].nodes, 1)
  /\ allLinks' = graph'[1].links
  /\ nodes' = rootIds(graph'[1].nodes, 1)
  /\ links' = updateLinks(allNodes', allLinks', nodes')
  /\ loading' = FALSE
  /\ simulation' = "running"
  /\ pc' = "loaded"
  /\ UNCHANGED <<errored, error>>

\* subscribe({ error }): forkJoin forwards the first inner error
DeliverError ==
  /\ errored' = TRUE
  /\ error' = "Error loading graph data"
  /\ loading' = FALSE
  /\ pc' = "failed"
  /\ UNCHANGED <<emitted, allNodes, allLinks, nodes, links, data, graph, simulation>>

Settle(m, ok) ==
  /\ pc = "loading"
  /\ status[m] = "pending"
  /\ status' = [status EXCEPT ![m] = IF ok THEN "ok" ELSE "failed"]
  /\ UNCHANGED <<server, expandedNodes, timers, events>>
  /\ IF req(m, ok, server[m]).err THEN DeliverError
     ELSE IF forkJoinReady(status') THEN Deliver(status')
     ELSE UNCHANGED <<emitted, errored, loading, error, allNodes, allLinks, nodes,
                      links, data, graph, pc, simulation>>

\* the HTTP response of metric m arrives (2xx)
Respond(m) == Settle(m, TRUE)

\* the request of metric m fails (network error or non-2xx)
Fail(m) == Settle(m, FALSE)

\* the request of metric m never settles: no timeout is set on any request
Hang(m) ==
  /\ pc = "loading"
  /\ status[m] = "pending"
  /\ status' = [status EXCEPT ![m] = "hung"]
  /\ UNCHANGED <<server, emitted, errored, loading, error, allNodes, allLinks, nodes,
                 links, expandedNodes, timers, events, data, graph, pc, simulation>>

Next == \E m \in Metrics : Respond(m) \/ Fail(m) \/ Hang(m)

Spec == Init /\ [][Next]_vars

(***************************************************************************)
(* Specification SpecBuild: buildGraph applied to every bounded payload    *)
(***************************************************************************)
InitBuild ==
  /\ server = [m \in Endpoints |-> NoResult]
  /\ status = [m \in Metrics |-> "pending"]
  /\ emitted = 0
  /\ errored = FALSE
  /\ loading = TRUE
  /\ error = "none"
  /\ allNodes = <<>>
  /\ allLinks = <<>>
  /\ nodes = <<>>
  /\ links = <<>>
  /\ expandedNodes = <<>>
  /\ timers = <<>>
  /\ events = 0
  /\ data \in {<<p>> : p \in Payloads}
  /\ graph = NoGraph
  /\ pc = "input"
  /\ simulation = "none"

\* links kept across builds instead of "const links = []" in every call
BuildKeepingLinks ==
  /\ pc \in {"input", "built"}
  /\ graph' = IF graph = NoGraph THEN <<buildGraph(data[1])>>
              ELSE <<[nodes |-> buildGraph(data[1]).nodes,
                      links |-> graph[1].links \o buildGraph(data[1]).links]>>
  /\ pc' = IF pc = "input" THEN "built" ELSE "rebuilt"
  /\ UNCHANGED <<server, status, emitted, errored, loading, error, allNodes, allLinks,
                 nodes, links, expandedNodes, timers, events, data, simulation>>

\* map(data => this.buildGraph(data)): every subscription builds from the
\* payload alone; the second build stands for a reload of the same payload
Build ==
  /\ pc \in {"input", "built"}
  /\ graph' = <<buildGraph(data[1])>>
  /\ pc' = IF pc = "input" THEN "built" ELSE "rebuilt"
  /\ UNCHANGED <<server, status, emitted, errored, loading, error, allNodes, allLinks,
                 nodes, links, expandedNodes, timers, events, data, simulation>>

NextBuild == Build

SpecBuild == InitBuild /\ [][NextBuild]_vars

(***************************************************************************)
(* Specification SpecView: the loaded view under clicks, the two buttons   *)
(* and ngOnDestroy.  A press schedules its batches after the callbacks     *)
(* that are still pending; each pending callback carries the time left to  *)
(* it, in tenths of a second, and the one due first runs first.  Clicks    *)
(* and presses interleave freely with the callbacks.  At most MaxEvents    *)
(* clicks and presses are followed; after ngOnDestroy only the pending     *)
(* callbacks run.                                                          *)
(***************************************************************************)
F3 == <<"b", "/", "z">>
FDashA == <<"a">>
FDashBC == <<"b", "-", "c">>
FDashAB == <<"a", "-", "b">>
FDashC == <<"c">>
FnH == <<"h">>
FnK == <<"k">>

\* two directories, two files, two classes: six nodes with children
ViewServerTree ==
  [m \in Endpoints |->
     CASE m = "files" -> [kind |-> "array", list |-> <<F1, F3>>]
       [] m = "classes-per-file" -> << <<F1, << <<ClsC, <<MethM>> >> >> >>,
                                       <<F3, << <<ClsD, <<MethM>> >> >> >> >>
       [] m = "class-coupling" -> classCouplingOf(ClsD, MethM, MaxCount, "fan-out")
       [] m = "functions-per-file" -> << <<F1, <<FnF>> >>, <<F3, <<FnG>> >> >>
       [] m = "function-coupling" ->
            << <<F1, << <<FnF, [fanOut |-> << <<FnG, 1>> >>, fanIn |-> <<>>]>> >> >> >>
       [] m = "dependencies" -> NoDeps]

\* four files at the root whose names contain '-'
ViewServerDash ==
  [m \in Endpoints |->
     CASE m = "files" -> [kind |-> "result", list |-> <<FDashA, FDashBC, FDashAB, FDashC>>]
       [] m = "classes-per-file" -> NoResult
       [] m = "class-coupling" -> NoResult
       [] m = "functions-per-file" -> << <<FDashA, <<FnF>> >>, <<FDashBC, <<FnG>> >>,
                                         <<FDashAB, <<FnH>> >>, <<FDashC, <<FnK>> >> >>
       [] m = "function-coupling" ->
            << <<FDashA, << <<FnF, [fanOut |-> << <<FnG, 1>> >>, fanIn |-> <<>>]>> >> >>,
               <<FDashAB, << <<FnH, [fanOut |-> << <<FnK, MaxCount>> >>, fanIn |-> <<>>]>> >> >> >>
       [] m = "dependencies" -> NoDeps]

ViewServers == {ViewServerTree, ViewServerDash}

\* the state loadGraph's subscriber leaves when every request has answered
InitView ==
  /\ server \in ViewServers
  /\ status = [m \in Metrics |-> "ok"]
  /\ emitted = 1
  /\ errored = FALSE
  /\ loading = FALSE
  /\ error = "none"
  /\ data = <<joined(status, server)>>
  /\ graph = <<buildGraph(data[1])>>
  /\ allNodes = setAll(<<>>, graph[1].nodes, 1)
  /\ allLinks = graph[1].links
  /\ nodes = rootIds(graph[1].nodes, 1)
  /\ links = updateLinks(allNodes, allLinks, nodes)
  /\ expandedNodes = <<>>
  /\ timers = <<>>
  /\ events = 0
  /\ pc = "loaded"
  /\ simulation = "running"

\* click on the circle of a render node
handleNodeClick(id) ==
  /\ pc = "loaded"
  /\ id \in Range(nodes)
  /\ events < MaxEvents
  /\ events' = events + 1
  /\ IF ~MapHas(allNodes, id) \/ Len(MapGet(allNodes, id).children) = 0
       THEN UNCHANGED <<expandedNodes, nodes, links, simulation>>
       ELSE /\ expandedNodes' = SetAdd(expandedNodes, id)
            /\ nodes' = expand(allNodes, nodes, id)
            /\ links' = updateSimulation(allNodes, allLinks, nodes')
            /\ simulation' = "running"
  /\ UNCHANGED <<server, status, emitted, errored, loading, error, allNodes, allLinks,
                 timers, data, graph, pc>>

\* click on the enclosure circle of an expanded node
collapseClick(parentId) ==
  /\ pc = "loaded"
  /\ parentId \in Range(calculateEnclosures(allNodes, nodes, expandedNodes))
  /\ events < MaxEvents
  /\ events' = events + 1
  /\ expandedNodes' = SetDelete(expandedNodes, parentId)
  /\ nodes' = collapse(allNodes, nodes, parentId)
  /\ links' = updateSimulation(allNodes, allLinks, nodes')
  /\ simulation' = "running"
  /\ UNCHANGED <<server, status, emitted, errored, loading, error, allNodes, allLinks,
                 timers, data, graph, pc>>

\* the number of a new invocation: one more than those with callbacks pending
nextCall(ts) ==
  IF ts = <<>> THEN 1
  ELSE 1 + (CHOOSE c \in {ts[i].call : i \in 1..Len(ts)} :
              \A i \in 1..Len(ts) : ts[i].call <= c)

\* the "expand all" button: the batches are scheduled, nothing else changes;
\* callbacks still pending from an earlier press stay scheduled
expandAll ==
  /\ pc = "loaded"
  /\ events < MaxEvents
  /\ events' = events + 1
  /\ timers' = timers \o batches(nodesToExpand(allNodes), "expand", 0, expandDelay,
                                 nextCall(timers))
  /\ UNCHANGED <<server, status, emitted, errored, loading, error, allNodes, allLinks,
                 nodes, links, expandedNodes, data, graph, pc, simulation>>

\* the "collapse all" button
collapseAll ==
  /\ pc = "loaded"
  /\ events < MaxEvents
  /\ events' = events + 1
  /\ timers' = timers \o batches(toCollapse(allNodes, expandedNodes), "collapse", 0,
                                 collapseDelay, nextCall(timers))
  /\ UNCHANGED <<server, status, emitted, errored, loading, error, allNodes, allLinks,
                 nodes, links, expandedNodes, data, graph, pc, simulation>>

\* the pending callback that runs next: the first scheduled among those due
dueTimer(ts) ==
  LET due == {i \in 1..Len(ts) : ts[i].delay = 0}
  IN IF due = {} THEN 0 ELSE CHOOSE i \in due : \A k \in due : i <= k

\* a tenth of a second passes with no callback due
tick ==
  /\ pc \in {"loaded", "destroyed"}
  /\ timers # <<>>
  /\ dueTimer(timers) = 0
  /\ timers' = [i \in 1..Len(timers) |-> [timers[i] EXCEPT !.delay = @ - 1]]
  /\ UNCHANGED <<server, status, emitted, errored, loading, error, allNodes, allLinks,
                 nodes, links, expandedNodes, events, data, graph, pc, simulation>>

\* setTimeout callback of the batch that is due; nothing cancels it, so it
\* also runs after ngOnDestroy
timeout ==
  /\ pc \in {"loaded", "destroyed"}
  /\ dueTimer(timers) # 0
  /\ timers' = SubSeq(timers, 1, dueTimer(timers) - 1)
                 \o SubSeq(timers, dueTimer(timers) + 1, Len(timers))
  /\ \E t \in {timers[dueTimer(timers)]} :
       \E v \in {IF t.kind = "expand"
                   THEN expandBatch(allNodes, [nodes |-> nodes, expanded |-> expandedNodes],
                                    t.ids, 1)
                   ELSE collapseBatch(allNodes, [nodes |-> nodes, expanded |-> expandedNodes],
                                      t.ids, 1)} :
         /\ nodes' = v.nodes
         /\ expandedNodes' = v.expanded
         /\ simulation' = IF t.kind = "expand" \/ v.expanded # expandedNodes
                            THEN "running" ELSE simulation
  /\ links' = updateSimulation(allNodes, allLinks, nodes')
  /\ UNCHANGED <<server, status, emitted, errored, loading, error, allNodes, allLinks,
                 events, data, graph, pc>>

\* the view is left: the simulation is stopped, pending callbacks are kept
ngOnDestroy ==
  /\ pc = "loaded"
  /\ simulation' = IF simulation # "none" THEN "stopped" ELSE simulation
  /\ pc' = "destroyed"
  /\ UNCHANGED <<server, status, emitted, errored, loading, error, allNodes, allLinks,
                 nodes, links, expandedNodes, timers, events, data, graph>>

NextView ==
  \/ \E id \in Range(nodes) : handleNodeClick(id)
  \/ \E parentId \in Range(expandedNodes) : collapseClick(parentId)
  \/ expandAll
  \/ collapseAll
  \/ tick
  \/ timeout
  \/ ngOnDestroy

SpecView == InitView /\ [][NextView]_vars

TypeOK ==
  /\ status \in [Metrics -> {"pending", "ok", "failed", "hung"}]
  /\ emitted \in 0..1
  /\ pc \in {"loading", "loaded", "failed", "input", "built", "rebuilt", "destroyed"}
  /\ simulation \in {"none", "running", "stopped"}

(***************************************************************************)
(* Vocabulary of the properties                                            *)
(***************************************************************************)
Settled(m) == status[m] = "ok" \/ status[m] = "failed"

AllSettled == \A m \in Metrics : Settled(m)

Built == pc \in {"built", "rebuilt"} /\ graph # NoGraph

OutNodes == graph[1].nodes

OutLinks == graph[1].links

OutIds == {OutNodes[i].id : i \in 1..Len(OutNodes)}

NodeOf(id) == OutNodes[CHOOSE i \in 1..Len(OutNodes) : OutNodes[i].id = id]

\* the id of the parent of a registered node, <<>> when it has none
ParentOf(id) == IF id \in OutIds THEN NodeOf(id).parentId ELSE Undefined

Occurrences(s, x) == Cardinality({i \in 1..Len(s) : s[i] = x})

RECURSIVE SumValues(_, _)
SumValues(ls, idx) ==
  IF idx = {} THEN 0
  ELSE LET i == CHOOSE j \in idx : TRUE
       IN ls[i].value + SumValues(ls, idx \ {i})

LinksWhere(type, src, tgt) ==
  {i \in 1..Len(OutLinks) : /\ OutLinks[i].type = type
                            /\ OutLinks[i].source = src
                            /\ OutLinks[i].target = tgt}

(***************************************************************************)
(* C1  Whatever subset of the metric requests fails, loadHierarchy emits   *)
(* no error and at most one graph, and once every request has settled it   *)
(* has emitted exactly one graph: the graph built from the responses that  *)
(* arrived, with empty data in place of every failed metric.               *)
(***************************************************************************)
EmptyData(m) == IF m = "files" THEN [kind |-> "array", list |-> <<>>] ELSE NoResult

AsIfFailedWereEmpty ==
  LET v(m) == IF status[m] = "ok" THEN server[m] ELSE EmptyData(m)
  IN [files |-> v("files"), dependencies |-> NoDeps,
      classes |-> v("classes-per-file"), classCoupling |-> v("class-coupling"),
      funcs |-> v("functions-per-file"), funcCoupling |-> v("function-coupling")]

FailedMetricsDegradeToEmpty ==
  /\ ~errored
  /\ error = "none"
  /\ emitted <= 1
  /\ AllSettled => /\ emitted = 1
                   /\ graph = <<buildGraph(AsIfFailedWereEmpty)>>

PartialGraphEmitted ==
  /\ pc = "loaded"
  /\ emitted = 1
  /\ status["class-coupling"] = "failed"
  /\ status["files"] = "ok"
  /\ status["classes-per-file"] = "ok"
  /\ Len(graph[1].nodes) > 0

(***************************************************************************)
(* C2  In every interleaving the graph is built exactly once and only      *)
(* after every request has settled: while a request is outstanding no      *)
(* graph has been emitted and the view is still loading.                   *)
(***************************************************************************)
GraphOnlyAfterAllSettled ==
  /\ (emitted > 0 \/ graph # NoGraph \/ nodes # <<>> \/ pc = "loaded")
       => (AllSettled /\ emitted = 1 /\ graph # NoGraph)
  /\ (\E m \in Metrics : ~Settled(m)) => (emitted = 0 /\ graph = NoGraph /\ loading)

MixedSettlementBuilt ==
  /\ emitted = 1
  /\ graph # NoGraph
  /\ \E m \in Metrics : status[m] = "ok"
  /\ \E m \in Metrics : status[m] = "failed"

(***************************************************************************)
(* C3  (as claimed) When one request hangs and all the others have         *)
(* settled, the graph has been built from the other metrics and loading    *)
(* is cleared.                                                             *)
(***************************************************************************)
OneHungOthersSettled ==
  \E m \in Metrics : status[m] = "hung" /\ \A o \in Metrics \ {m} : Settled(o)

HungRequestStillYieldsView == OneHungOthersSettled => (graph # NoGraph /\ ~loading)

(***************************************************************************)
(* C3  (amended) When a request hangs, no graph is built and the loading   *)
(* state is not cleared, however many of the other requests settle.        *)
(***************************************************************************)
HungRequestBlocksView ==
  (\E m \in Metrics : status[m] = "hung")
    => (graph = NoGraph /\ loading /\ emitted = 0 /\ nodes = <<>> /\ pc = "loading")

HungWhileOthersSettled == OneHungOthersSettled /\ loading /\ graph = NoGraph

(***************************************************************************)
(* C4  Every node id occurs exactly once in the node list buildGraph       *)
(* returns.                                                                *)
(***************************************************************************)
NodeIdsUnique ==
  Built => \A i, j \in 1..Len(OutNodes) : OutNodes[i].id = OutNodes[j].id => i = j

(***************************************************************************)
(* C5  The registry is a forest whose children lists agree with parentId:  *)
(* n has parentId p iff n occurs exactly once among the children of p, and *)
(* every parent chain ends at a node without parent.                       *)
(***************************************************************************)
RECURSIVE ReachesRoot(_, _)
ReachesRoot(id, fuel) ==
  IF id \notin OutIds THEN FALSE
  ELSE IF NodeOf(id).parentId = Undefined THEN TRUE
  ELSE IF fuel = 0 THEN FALSE
  ELSE ReachesRoot(NodeOf(id).parentId[1], fuel - 1)

ChildrenAgreeWithParentIds ==
  Built =>
    /\ \A i, j \in 1..Len(OutNodes) :
         (OutNodes[i].parentId = <<OutNodes[j].id>>)
           <=> (Occurrences(OutNodes[j].children, OutNodes[i].id) = 1)
    /\ \A id \in OutIds : ReachesRoot(id, Len(OutNodes))

NodeNameOfMethod(name) == IF name = <<"constructor">> THEN <<"_constructor">> ELSE name

\* the files of data.classes that declare class c
DeclaringFiles(c) ==
  {data[1].classes[i][1] : i \in {k \in 1..Len(data[1].classes) :
      \E j \in 1..Len(data[1].classes[k][2]) : data[1].classes[k][2][j][1] = c}}

\* the fan-out entries of the class-coupling payload
MethodFanOutReports ==
  LET cc == data[1].classCoupling
  IN UNION {UNION {UNION {UNION {
       {[src |-> cc[i][1] \o <<"::">> \o cc[i][2][j][1] \o <<"::">>
                   \o NodeNameOfMethod(cc[i][2][j][2][k].name),
         tc |-> cc[i][2][j][2][k].fanOut[a][1],
         tm |-> cc[i][2][j][2][k].fanOut[a][2][b][1],
         n |-> cc[i][2][j][2][k].fanOut[a][2][b][2]] :
          b \in 1..Len(cc[i][2][j][2][k].fanOut[a][2])} :
          a \in 1..Len(cc[i][2][j][2][k].fanOut)} :
          k \in 1..Len(cc[i][2][j][2])} :
          j \in 1..Len(cc[i][2])} :
          i \in 1..Len(cc)}

\* the fan-out entries of the function-coupling payload
FunctionFanOutReports ==
  LET fc == data[1].funcCoupling
  IN UNION {UNION {
       {[src |-> fc[i][1] \o <<"::">> \o fc[i][2][j][1],
         callee |-> fc[i][2][j][2].fanOut[a][1],
         n |-> fc[i][2][j][2].fanOut[a][2]] :
          a \in 1..Len(fc[i][2][j][2].fanOut)} :
          j \in 1..Len(fc[i][2])} :
          i \in 1..Len(fc)}

FanOutCountIsEdgeValue ==
  Built =>
    /\ \A r \in MethodFanOutReports : \A tf \in DeclaringFiles(r.tc) :
         LET tgt == tf \o <<"::">> \o r.tc \o <<"::">> \o NodeNameOfMethod(r.tm)
         IN (Cardinality(DeclaringFiles(r.tc)) = 1 /\ r.src \in OutIds /\ tgt \in OutIds
               /\ r.src # tgt)
              => /\ LinksWhere("CALL", r.src, tgt) # {}
                 /\ \A i \in LinksWhere("CALL", r.src, tgt) : OutLinks[i].value = r.n
    /\ \A r \in FunctionFanOutReports : \A tf \in {F1, F2} :
         LET tgt == tf \o <<"::">> \o r.callee
         IN (r.src \in OutIds /\ tgt \in OutIds /\ r.src # tgt)
              => /\ LinksWhere("CALL", r.src, tgt) # {}
                 /\ \A i \in LinksWhere("CALL", r.src, tgt) : OutLinks[i].value = r.n

(***************************************************************************)
(* C8  The value of the class-level COUPLING edge from class C to class D  *)
(* is the sum of the values of the method-level CALL edges from the        *)
(* methods of C to the methods of D.                                       *)
(***************************************************************************)
CallsBetweenParents(p, q) ==
  {i \in 1..Len(OutLinks) : /\ OutLinks[i].type = "CALL"
                            /\ ParentOf(OutLinks[i].source) = <<p>>
                            /\ ParentOf(OutLinks[i].target) = <<q>>}

ClassEdgeIsSumOfMethodEdges ==
  Built =>
    \A i \in 1..Len(OutLinks) :
      OutLinks[i].type = "COUPLING"
        => OutLinks[i].value
             = SumValues(OutLinks, CallsBetweenParents(OutLinks[i].source, OutLinks[i].target))

(***************************************************************************)
(* C9  For distinct files A and B the aggregated file-level edge from A to *)
(* B carries the sum of the class-level edges from classes of A to classes *)
(* of B plus the function-level edges from standalone functions of A to    *)
(* standalone functions of B; there is one such edge when that sum has a   *)
(* contribution and none otherwise.                                        *)
(***************************************************************************)
FileIds == {OutNodes[i].id : i \in {k \in 1..Len(OutNodes) : OutNodes[k].type = "FILE"}}

\* the aggregated file-level edges carry a direction, the import edges none
AggregatedFileEdges(a, b) ==
  {i \in LinksWhere("DEPENDENCY", a, b) : OutLinks[i].direction # "none"}

ClassEdgesBetweenFiles(a, b) ==
  {i \in 1..Len(OutLinks) : /\ OutLinks[i].type = "COUPLING"
                            /\ ParentOf(OutLinks[i].source) = <<a>>
                            /\ ParentOf(OutLinks[i].target) = <<b>>}

FileEdgeIsSumOfLowerLevels ==
  Built =>
    \A a, b \in FileIds :
      a # b =>
        LET contrib == ClassEdgesBetweenFiles(a, b) \cup CallsBetweenParents(a, b)
        IN /\ Cardinality(AggregatedFileEdges(a, b)) = (IF contrib = {} THEN 0 ELSE 1)
           /\ SumValues(OutLinks, AggregatedFileEdges(a, b)) = SumValues(OutLinks, contrib)

FileEdgeFromClassAndFunction ==
  /\ Built
  /\ ClassEdgesBetweenFiles(F1, F2) # {}
  /\ CallsBetweenParents(F1, F2) # {}
  /\ Cardinality(AggregatedFileEdges(F1, F2)) = 1
  /\ SumValues(OutLinks, AggregatedFileEdges(F1, F2))
       > SumValues(OutLinks, ClassEdgesBetweenFiles(F1, F2))

(***************************************************************************)
(* C10  No edge of any level has its source equal to its target.           *)
(***************************************************************************)
NoSelfLoops == Built => \A i \in 1..Len(OutLinks) : OutLinks[i].source # OutLinks[i].target

(***************************************************************************)
(* C11  (as claimed) Every link joins two ids of the returned node list,   *)
(* and a fan-in / fan-out entry that names a class, method or function     *)
(* missing from the registry leaves the graph exactly as it is without     *)
(* that entry.                                                             *)
(***************************************************************************)
\* every reported interaction caller.method -> callee.method, whichever side
\* reports it
MethodInteractions ==
  LET cc == data[1].classCoupling
  IN UNION {UNION {UNION {
       UNION {{[callerClass |-> cc[i][2][j][1], callerMethod |-> cc[i][2][j][2][k].name,
                calleeClass |-> cc[i][2][j][2][k].fanOut[a][1],
                calleeMethod |-> cc[i][2][j][2][k].fanOut[a][2][b][1]] :
                 b \in 1..Len(cc[i][2][j][2][k].fanOut[a][2])} :
                 a \in 1..Len(cc[i][2][j][2][k].fanOut)}
       \cup
       UNION {{[callerClass |-> cc[i][2][j][2][k].fanIn[a][1],
                callerMethod |-> cc[i][2][j][2][k].fanIn[a][2][b][1],
                calleeClass |-> cc[i][2][j][1], calleeMethod |-> cc[i][2][j][2][k].name] :
                 b \in 1..Len(cc[i][2][j][2][k].fanIn[a][2])} :
                 a \in 1..Len(cc[i][2][j][2][k].fanIn)} :
          k \in 1..Len(cc[i][2][j][2])} :
          j \in 1..Len(cc[i][2])} :
          i \in 1..Len(cc)}

FunctionInteractions ==
  LET fc == data[1].funcCoupling
  IN UNION {UNION {
       {[caller |-> fc[i][2][j][1], callee |-> fc[i][2][j][2].fanOut[a][1]] :
          a \in 1..Len(fc[i][2][j][2].fanOut)}
       \cup
       {[caller |-> fc[i][2][j][2].fanIn[a][1], callee |-> fc[i][2][j][1]] :
          a \in 1..Len(fc[i][2][j][2].fanIn)} :
          j \in 1..Len(fc[i][2])} :
          i \in 1..Len(fc)}

ClassKnown(c) == \E f \in PathUniverse : (f \o <<"::">> \o c) \in OutIds

MethodKnown(c, m) ==
  \E f \in PathUniverse : (f \o <<"::">> \o c \o <<"::">> \o NodeNameOfMethod(m)) \in OutIds

FunctionKnown(fn) == \E f \in PathUniverse : (f \o <<"::">> \o fn) \in OutIds

EndpointsAreNodes ==
  \A i \in 1..Len(OutLinks) : OutLinks[i].source \in OutIds /\ OutLinks[i].target \in OutIds

WithoutClassCoupling == buildGraph([data[1] EXCEPT !.classCoupling = NoResult])

WithoutFunctionCoupling == buildGraph([data[1] EXCEPT !.funcCoupling = NoResult])

UnresolvedEntriesAddNothing ==
  Built =>
    /\ EndpointsAreNodes
    /\ (\A r \in MethodInteractions :
           ~MethodKnown(r.callerClass, r.callerMethod) \/ ~MethodKnown(r.calleeClass, r.calleeMethod))
         => graph[1] = WithoutClassCoupling
    /\ (\A r \in FunctionInteractions : ~FunctionKnown(r.caller) \/ ~FunctionKnown(r.callee))
         => graph[1] = WithoutFunctionCoupling

(***************************************************************************)
(* C11  (what the code keeps) Every link joins two ids of the returned node list and   *)
(* the coupling metrics never change the node list.  An entry that names   *)
(* an unregistered class or function leaves the graph exactly as it is     *)
(* without that entry; an entry that names an unregistered method of a     *)
(* registered class creates no CALL link, but the class-level pass still   *)
(* counts it between the two classes.                                      *)
(***************************************************************************)
CallLinks(g) == SelectSeq(g.links, LAMBDA l : l.type = "CALL")

UnresolvedEntriesAddNoCall ==
  Built =>
    /\ EndpointsAreNodes
    /\ OutNodes = WithoutClassCoupling.nodes
    /\ OutNodes = WithoutFunctionCoupling.nodes
    /\ (\A r \in MethodInteractions : ~ClassKnown(r.callerClass) \/ ~ClassKnown(r.calleeClass))
         => graph[1] = WithoutClassCoupling
    /\ (\A r \in MethodInteractions :
           ~MethodKnown(r.callerClass, r.callerMethod) \/ ~MethodKnown(r.calleeClass, r.calleeMethod))
         => CallLinks(graph[1]) = CallLinks(WithoutClassCoupling)
    /\ (\A r \in FunctionInteractions : ~FunctionKnown(r.caller) \/ ~FunctionKnown(r.callee))
         => graph[1] = WithoutFunctionCoupling

\* an unregistered callee method of a registered class, an unregistered
\* callee function, and an import link that is still there
UnresolvedMethodAndFunctionSkipped ==
  /\ Built
  /\ \E r \in MethodInteractions :
        /\ ClassKnown(r.callerClass) /\ ClassKnown(r.calleeClass)
        /\ MethodKnown(r.callerClass, r.callerMethod)
        /\ ~MethodKnown(r.calleeClass, r.calleeMethod)
  /\ \E r \in FunctionInteractions : FunctionKnown(r.caller) /\ ~FunctionKnown(r.callee)
  /\ \E i \in 1..Len(OutLinks) : OutLinks[i].type = "DEPENDENCY"
  /\ \E i \in 1..Len(OutLinks) : OutLinks[i].type = "COUPLING"
  /\ CallLinks(graph[1]) = <<>>

(***************************************************************************)
(* C12  The returned links hold at most one link for any source, target    *)
(* and level: contributions to the same directed pair at one level are     *)
(* merged into one link.                                                   *)
(***************************************************************************)
OneLinkPerPairAndLevel ==
  Built =>
    \A i, j \in 1..Len(OutLinks) :
      (/\ OutLinks[i].source = OutLinks[j].source
       /\ OutLinks[i].target = OutLinks[j].target
       /\ OutLinks[i].type = OutLinks[j].type) => i = j

(***************************************************************************)
(* C20  A function-map entry named Class.method (or Class::method) for a   *)
(* class registered in its file stands for one FUNCTION node under that    *)
(* class: none is added when the class map already produced the method's   *)
(* node, one is added otherwise.  An entry that matches no class of the    *)
(* file is a FUNCTION node under the file.                                 *)
(***************************************************************************)
\* the <<file, funcName>> entries of data.funcs whose file is registered
FunctionEntries ==
  LET fo == data[1].funcs
  IN UNION {{<<fo[i][1], fo[i][2][j]>> : j \in 1..Len(fo[i][2])} :
              i \in {k \in 1..Len(fo) : fo[k][1] \in OutIds}}

\* the classes of `file` whose name, followed by "." or "::", starts the name
ConventionClasses(file, name) ==
  {c \in {ClsC, ClsD} :
     /\ (file \o <<"::">> \o c) \in OutIds
     /\ NodeOf(file \o <<"::">> \o c).type = "CLASS"
     /\ (StartsWith(name, c \o <<".">>) \/ StartsWith(name, c \o <<"::">>))}

\* the ids under which the method of such an entry can be registered
NodesOfMethod(file, c, name) ==
  LET m == SubSeq(name, Len(c) + 2, Len(name))
  IN {id \in OutIds :
        \/ id = file \o <<"::">> \o c \o <<"::">> \o NodeNameOfMethod(m)
        \/ id = file \o <<"::">> \o name}

FunctionEntriesRegisteredOnce ==
  Built =>
    \A e \in FunctionEntries :
      IF ConventionClasses(e[1], e[2]) # {}
        THEN \A c \in ConventionClasses(e[1], e[2]) :
               /\ Cardinality(NodesOfMethod(e[1], c, e[2])) = 1
               /\ \A id \in NodesOfMethod(e[1], c, e[2]) :
                     /\ NodeOf(id).type = "FUNCTION"
                     /\ NodeOf(id).parentId = <<e[1] \o <<"::">> \o c>>
        ELSE /\ (e[1] \o <<"::">> \o e[2]) \in OutIds
             /\ NodeOf(e[1] \o <<"::">> \o e[2]).type = "FUNCTION"
             /\ NodeOf(e[1] \o <<"::">> \o e[2]).parentId = <<e[1]>>

(***************************************************************************)
(* Vocabulary of the view properties                                       *)
(***************************************************************************)
Loaded == pc = "loaded"

Visible == Range(nodes)

HasChildren(id) == MapHas(allNodes, id) /\ Len(MapGet(allNodes, id).children) > 0

ChildrenOf(id) == Range(MapGet(allNodes, id).children)

(***************************************************************************)
(* C13  In every reachable view state, for every visible node n that has   *)
(* children, expanding n and then collapsing n gives back the visible set  *)
(* from before the expand.                                                 *)
(***************************************************************************)
ExpandThenCollapseRestores ==
  Loaded =>
    \A n \in Visible :
      HasChildren(n)
        => Range(collapse(allNodes, expand(allNodes, nodes, n), n)) = Visible

(***************************************************************************)
(* C14  After the load and after every click, press and batch, each        *)
(* visible link joins two members of the current visible node set.         *)
(***************************************************************************)
VisibleLinksJoinVisibleNodes ==
  Loaded =>
    \A i \in 1..Len(links) : links[i].source \in Visible /\ links[i].target \in Visible

\* after at least three clicks or presses, with no batch pending, a link is
\* shown from a node revealed by an expand to a root node
LinkBetweenRevealedNodes ==
  /\ Loaded
  /\ events >= 3
  /\ timers = <<>>
  /\ \E i \in 1..Len(links) :
        /\ links[i].source \notin Range(rootIds(graph[1].nodes, 1))
        /\ links[i].target \in Range(rootIds(graph[1].nodes, 1))
  /\ expandedNodes # <<>>

(***************************************************************************)
(* C15  When several raw links resolve to the same pair of visible nodes,  *)
(* the one visible link of that pair carries the sum of their values.      *)
(***************************************************************************)
\* the raw links whose endpoints resolve to the visible pair s -> t
RawLinksOf(s, t) ==
  {j \in 1..Len(allLinks) : /\ findVisible(allNodes, Visible, allLinks[j].source) = <<s>>
                            /\ findVisible(allNodes, Visible, allLinks[j].target) = <<t>>}

MergedLinkCarriesSum ==
  Loaded =>
    \A i \in 1..Len(links) :
      Cardinality(RawLinksOf(links[i].source, links[i].target)) >= 2
        => links[i].couplingValue
             = SumValues(allLinks, RawLinksOf(links[i].source, links[i].target))

(***************************************************************************)
(* C16  For every ordered pair of distinct visible nodes s, t there is     *)
(* exactly one visible link s -> t when some raw link resolves to that     *)
(* pair and none otherwise, whatever characters the ids contain.           *)
(***************************************************************************)
VisibleLinksOf(s, t) == {i \in 1..Len(links) : links[i].source = s /\ links[i].target = t}

OneVisibleLinkPerResolvedPair ==
  Loaded =>
    \A s, t \in Visible :
      s # t => Cardinality(VisibleLinksOf(s, t)) = (IF RawLinksOf(s, t) # {} THEN 1 ELSE 0)

(***************************************************************************)
(* C17  Immediately after a load completes, the visible nodes are exactly  *)
(* the registry nodes that have no parent, and no node is expanded.        *)
(***************************************************************************)
VisibleAfterLoadAreParentless ==
  (Loaded /\ events = 0) =>
    /\ Visible = {OutNodes[i].id : i \in {k \in 1..Len(OutNodes) : OutNodes[k].parentId = Undefined}}
    /\ expandedNodes = <<>>

(***************************************************************************)
(* C18  A click on a visible node n that has children adds n to the        *)
(* expanded set, takes n out of the visible set, puts the direct children  *)
(* of n in, and leaves every other visible node and expanded member as it  *)
(* was; a click on a node without children changes neither set.            *)
(***************************************************************************)
ExpandFrame ==
  [][\A n \in Visible :
       handleNodeClick(n) =>
         IF HasChildren(n)
           THEN /\ Range(expandedNodes') = Range(expandedNodes) \cup {n}
                /\ Range(nodes') = (Visible \ {n}) \cup ChildrenOf(n)
                /\ n \notin Range(nodes')
           ELSE nodes' = nodes /\ expandedNodes' = expandedNodes]_vars

\* a file has been expanded next to other visible nodes, and a childless
\* function node is on screen to be clicked
ExpandedBesideOthers ==
  /\ Loaded
  /\ expandedNodes = <<<<"a">>, F1>>
  /\ Visible = {<<"b">>, F1 \o <<"::">> \o ClsC, F1 \o <<"::">> \o FnF}
  /\ ~HasChildren(F1 \o <<"::">> \o FnF)
  /\ events = 3

(***************************************************************************)
(* C19  A click on the enclosure of an expanded node n takes n out of the  *)
(* expanded set, removes every visible transitive descendant of n, puts n  *)
(* itself in, and leaves every other visible node as it was.               *)
(***************************************************************************)
\* the ids on the parent chain of id, the registry read as it stands
RECURSIVE AncestorsOf(_)
AncestorsOf(id) ==
  IF ~MapHas(allNodes, id) \/ MapGet(allNodes, id).parentId = Undefined THEN {}
  ELSE {MapGet(allNodes, id).parentId[1]}
         \cup (IF MapGet(allNodes, id).parentId[1] = id THEN {}
               ELSE AncestorsOf(MapGet(allNodes, id).parentId[1]))

DescendantsOf(p) == {n \in Visible : p \in AncestorsOf(n)}

CollapseFrame ==
  [][\A p \in Range(expandedNodes) :
       collapseClick(p) =>
         /\ Range(expandedNodes') = Range(expandedNodes) \ {p}
         /\ Range(nodes') = (Visible \ DescendantsOf(p)) \cup {p}]_vars

\* a file was collapsed while one of its classes was expanded: the method
\* of the class is gone, the file is back, the other root is untouched
CollapsedOverGrandchildren ==
  /\ Loaded
  /\ Visible = {<<"b">>, F1}
  /\ Range(expandedNodes) = {<<"a">>, F1 \o <<"::">> \o ClsC}
  /\ events = 4
  /\ timers = <<>>

(***************************************************************************)
(* C21  A class member named constructor is one FUNCTION node of the node  *)
(* list, with id file::Class::_constructor, label constructor and the      *)
(* class as parent; a coupling entry that names the callee constructor or  *)
(* _constructor gives a CALL link to that node.                            *)
(***************************************************************************)
\* the <<file, class>> pairs of data.classes, in a registered file, that
\* declare a member named constructor
ClassesWithConstructor ==
  LET co == data[1].classes
  IN UNION {{<<co[i][1], co[i][2][j][1]>> :
               j \in {k \in 1..Len(co[i][2]) : MethCtor \in Range(co[i][2][k][2])}} :
              i \in {k \in 1..Len(co) : co[k][1] \in OutIds}}

ConstructorNodeId(file, c) == file \o <<"::">> \o c \o <<"::">> \o MethUnderscoreCtor

ConstructorIsOneNode ==
  Built =>
    /\ \A fc \in ClassesWithConstructor :
         LET id == ConstructorNodeId(fc[1], fc[2])
             at == {k \in 1..Len(OutNodes) : OutNodes[k].id = id}
         IN /\ Cardinality(at) = 1
            /\ \A k \in at : /\ OutNodes[k].type = "FUNCTION"
                              /\ OutNodes[k].label = MethCtor
                              /\ OutNodes[k].parentId = <<fc[1] \o <<"::">> \o fc[2]>>
    /\ \A r \in MethodFanOutReports : \A fc \in ClassesWithConstructor :
         (/\ r.tc = fc[2]
          /\ r.tm \in {MethCtor, MethUnderscoreCtor}
          /\ Cardinality(DeclaringFiles(r.tc)) = 1
          /\ r.src \in OutIds)
           => LinksWhere("CALL", r.src, ConstructorNodeId(fc[1], fc[2])) # {}

(***************************************************************************)
(* C22  When a class name is declared in two or more registered files,     *)
(* each declaration keeps its own CLASS node, every reference to the name  *)
(* in a fan-out or fan-in entry resolves to the first declaring file in    *)
(* scan order, and each CALL link between methods carries the sum of the   *)
(* counts of the entries that resolve to its pair.                         *)
(***************************************************************************)
\* the registered files of data.classes that declare class c, in scan order
DeclaringFilesInOrder(c) ==
  LET co == data[1].classes
      decl == SelectSeq(co, LAMBDA e : e[1] \in OutIds
                                        /\ \E j \in 1..Len(e[2]) : e[2][j][1] = c)
  IN [i \in 1..Len(decl) |-> decl[i][1]]

AmbiguousClasses == {c \in {ClsC, ClsD} : Len(DeclaringFilesInOrder(c)) >= 2}

\* the method id a reference "class c, method m" stands for
FirstFileMethodId(c, m) ==
  DeclaringFilesInOrder(c)[1] \o <<"::">> \o c \o <<"::">> \o NodeNameOfMethod(m)

\* the fan-in entries of the class-coupling payload
MethodFanInReports ==
  LET cc == data[1].classCoupling
  IN UNION {UNION {UNION {UNION {
       {[tgt |-> cc[i][1] \o <<"::">> \o cc[i][2][j][1] \o <<"::">>
                   \o NodeNameOfMethod(cc[i][2][j][2][k].name),
         cc |-> cc[i][2][j][2][k].fanIn[a][1],
         cm |-> cc[i][2][j][2][k].fanIn[a][2][b][1],
         n |-> cc[i][2][j][2][k].fanIn[a][2][b][2]] :
          b \in 1..Len(cc[i][2][j][2][k].fanIn[a][2])} :
          a \in 1..Len(cc[i][2][j][2][k].fanIn)} :
          k \in 1..Len(cc[i][2][j][2])} :
          j \in 1..Len(cc[i][2])} :
          i \in 1..Len(cc)}

RECURSIVE SumOfCounts(_)
SumOfCounts(reports) ==
  IF reports = {} THEN 0
  ELSE LET r == CHOOSE x \in reports : TRUE IN r.n + SumOfCounts(reports \ {r})

\* the count the entries report for the method pair s -> t
ReportedCalls(s, t) ==
  SumOfCounts({r \in MethodFanOutReports :
                 /\ r.src = s /\ DeclaringFilesInOrder(r.tc) # <<>>
                 /\ FirstFileMethodId(r.tc, r.tm) = t})
  + SumOfCounts({r \in MethodFanInReports :
                   /\ r.tgt = t /\ DeclaringFilesInOrder(r.cc) # <<>>
                   /\ FirstFileMethodId(r.cc, r.cm) = s})

MethodIds ==
  {OutNodes[k].id : k \in {i \in 1..Len(OutNodes) :
      /\ OutNodes[i].type = "FUNCTION"
      /\ OutNodes[i].parentId # Undefined
      /\ OutNodes[i].parentId[1] \in OutIds
      /\ NodeOf(OutNodes[i].parentId[1]).type = "CLASS"}}

AmbiguousClassResolvesToFirstFile ==
  (Built /\ AmbiguousClasses # {}) =>
    /\ \A c \in AmbiguousClasses : \A f \in Range(DeclaringFilesInOrder(c)) :
         /\ Cardinality({k \in 1..Len(OutNodes) : OutNodes[k].id = f \o <<"::">> \o c}) = 1
         /\ NodeOf(f \o <<"::">> \o c).type = "CLASS"
         /\ NodeOf(f \o <<"::">> \o c).parentId = <<f>>
    /\ \A s, t \in MethodIds :
         s # t =>
           /\ Cardinality(LinksWhere("CALL", s, t)) = (IF ReportedCalls(s, t) > 0 THEN 1 ELSE 0)
           /\ \A i \in LinksWhere("CALL", s, t) : OutLinks[i].value = ReportedCalls(s, t)

\* class D is declared in both files and C.m's fan-out to D.m has become a
\* CALL link to the method of the first declaration
CallToFirstDeclaration ==
  /\ Built
  /\ DeclaringFilesInOrder(ClsD) = <<F1, F2>>
  /\ \E i \in LinksWhere("CALL", F1 \o <<"::">> \o ClsC \o <<"::">> \o MethM,
                                  F1 \o <<"::">> \o ClsD \o <<"::">> \o MethM) :
        OutLinks[i].value = MaxCount
  /\ LinksWhere("CALL", F1 \o <<"::">> \o ClsC \o <<"::">> \o MethM,
                         F2 \o <<"::">> \o ClsD \o <<"::">> \o MethM) = {}

(***************************************************************************)
(* C23  When the class-coupling request fails and the other requests       *)
(* succeed, the graph has no CALL link between methods and no COUPLING     *)
(* link, and it has a DEPENDENCY link for every import of the server's     *)
(* dependencies graph whose two endpoints are FILE nodes.                  *)
(***************************************************************************)
OnlyClassCouplingFailed ==
  /\ pc = "loaded"
  /\ status["class-coupling"] = "failed"
  /\ \A m \in Metrics \ {"class-coupling"} : status[m] = "ok"

\* the imports src -> target of the server's dependencies graph
ServerImports ==
  LET dg == server["dependencies"]
  IN UNION {{<<dg[i][1], dg[i][2][j]>> : j \in 1..Len(dg[i][2])} : i \in 1..Len(dg)}

IsFileNode(id) == id \in OutIds /\ NodeOf(id).type = "FILE"

ClassCouplingFailureKeepsImportEdges ==
  OnlyClassCouplingFailed =>
    /\ \A i \in 1..Len(OutLinks) :
         /\ OutLinks[i].type # "COUPLING"
         /\ OutLinks[i].type = "CALL" => OutLinks[i].source \notin MethodIds
                                           /\ OutLinks[i].target \notin MethodIds
    /\ \A imp \in ServerImports :
         (IsFileNode(imp[1]) /\ IsFileNode(imp[2])) =>
            LinksWhere("DEPENDENCY", imp[1], imp[2]) # {}

(***************************************************************************)
(* C24  Once the view is destroyed, and once expandAll or collapseAll has  *)
(* been invoked again, no batch of an earlier invocation changes the       *)
(* visible set or the expanded set or restarts the simulation.             *)
(***************************************************************************)
ViewFrame ==
  /\ nodes' = nodes
  /\ expandedNodes' = expandedNodes
  /\ simulation' = simulation

\* the batch that runs in this step belongs to an invocation earlier than
\* one whose batches are still pending
EarlierBatchRuns ==
  /\ timeout
  /\ \E i \in 1..Len(timers) : timers[i].call > timers[dueTimer(timers)].call

EarlierBatchesAreDiscarded ==
  [][/\ pc = "destroyed" => ViewFrame
     /\ EarlierBatchRuns => ViewFrame]_vars

\* taken apart: what holds of the re-invocation and of the destroyed view
ReinvocationDiscardsEarlierBatches == [][EarlierBatchRuns => ViewFrame]_vars

DestroyDiscardsBatches == [][pc = "destroyed" => ViewFrame]_vars

(***************************************************************************)
(* C25  In every graph buildGraph returns, the parent of a DIRECTORY or    *)
(* FILE node is a DIRECTORY node or absent, the parent of a CLASS node is  *)
(* a FILE node, the parent of a FUNCTION node is a CLASS or FILE node, and *)
(* class and function entries under a path that is no known file create    *)
(* no node.                                                                *)
(***************************************************************************)
\* the types of the nodes registered under id
TypesOf(id) == {OutNodes[i].type : i \in {k \in 1..Len(OutNodes) : OutNodes[k].id = id}}

ParentIn(n, types) ==
  /\ n.parentId # Undefined
  /\ TypesOf(n.parentId[1]) # {}
  /\ TypesOf(n.parentId[1]) \subseteq types

KnownFiles == Range(filePathsOf(data[1]))

\* the ids a class or function entry under path file would be registered as
EntryIdsUnder(file) ==
  {id \in OutIds : Len(id) > Len(file) + 1 /\ SubSeq(id, 1, Len(file) + 1) = file \o <<"::">>}

ParentTypesAgree ==
  Built =>
    /\ \A i \in 1..Len(OutNodes) :
         LET n == OutNodes[i]
         IN CASE n.type \in {"DIRECTORY", "FILE"} ->
                   n.parentId = Undefined \/ ParentIn(n, {"DIRECTORY"})
              [] n.type = "CLASS" -> ParentIn(n, {"FILE"})
              [] n.type = "FUNCTION" -> ParentIn(n, {"CLASS", "FILE"})
              [] OTHER -> FALSE
    /\ \A k \in 1..Len(data[1].classes) :
         data[1].classes[k][1] \notin KnownFiles => EntryIdsUnder(data[1].classes[k][1]) = {}
    /\ \A k \in 1..Len(data[1].funcs) :
         data[1].funcs[k][1] \notin KnownFiles => EntryIdsUnder(data[1].funcs[k][1]) = {}

(***************************************************************************)
(* C26  Every link buildGraph returns joins nodes of the level of its      *)
(* type: a DEPENDENCY link two FILE nodes, a COUPLING link two CLASS       *)
(* nodes, a CALL link two FUNCTION nodes.                                  *)
(***************************************************************************)
LevelOf(type) ==
  CASE type = "DEPENDENCY" -> "FILE"
    [] type = "COUPLING" -> "CLASS"
    [] type = "CALL" -> "FUNCTION"
    [] OTHER -> "none"

LinkTypeMatchesEndpoints ==
  Built =>
    \A i \in 1..Len(OutLinks) :
      /\ TypesOf(OutLinks[i].source) = {LevelOf(OutLinks[i].type)}
      /\ TypesOf(OutLinks[i].target) = {LevelOf(OutLinks[i].type)}

(***************************************************************************)
(* C27  In every reachable view state the render nodes are a cut of the    *)
(* containment forest: for every registry node without children, exactly   *)
(* one render node lies on the path from it to its root.                   *)
(***************************************************************************)
RegistryIds == {allNodes[i][1] : i \in 1..Len(allNodes)}

RegistryLeaves == {id \in RegistryIds : ~HasChildren(id)}

\* the render nodes, counted with repetition, on the path from id to its root
RenderedOnPath(id) == {i \in 1..Len(nodes) : nodes[i] \in {id} \cup AncestorsOf(id)}

VisibleSetIsCut ==
  Loaded => \A leaf \in RegistryLeaves : Cardinality(RenderedOnPath(leaf)) = 1

(***************************************************************************)
(* C28  In every reachable view state every id of the expanded set is not  *)
(* a render node and has a render node among its descendants; and after a  *)
(* collapse of a no descendant of a is left in the expanded set.           *)
(***************************************************************************)
NoStaleEntry ==
  Loaded =>
    \A id \in Range(expandedNodes) : id \notin Visible /\ DescendantsOf(id) # {}

CollapseClearsDescendants ==
  \A p \in Range(expandedNodes) :
    collapseClick(p) => \A e \in Range(expandedNodes') : p \notin AncestorsOf(e)

ExpandedHoldsNoStaleEntry == [](NoStaleEntry) /\ [][CollapseClearsDescendants]_vars

(***************************************************************************)
(* C29  When expandAll is invoked with no batch pending and its batches    *)
(* run one after another with nothing in between, no render node has       *)
(* children afterwards and every registry node that has children is in the *)
(* expanded set.                                                           *)
(***************************************************************************)
\* the view [nodes, expanded] after the scheduled batches ts have run in turn
RECURSIVE afterBatches(_, _, _, _)
afterBatches(all, v, ts, i) ==
  IF i > Len(ts) THEN v
  ELSE afterBatches(all,
                    IF ts[i].kind = "expand" THEN expandBatch(all, v, ts[i].ids, 1)
                    ELSE collapseBatch(all, v, ts[i].ids, 1),
                    ts, i + 1)

AllExpanded(v) ==
  /\ \A n \in Range(v.nodes) : ~HasChildren(n)
  /\ \A id \in RegistryIds : HasChildren(id) => id \in Range(v.expanded)

ExpandAllShowsLeavesOnly ==
  [][(expandAll /\ timers = <<>>) =>
       AllExpanded(afterBatches(allNodes, [nodes |-> nodes, expanded |-> expandedNodes],
                                timers', 1))]_vars

(***************************************************************************)
(* C30  When collapseAll is invoked with no batch pending and its batches  *)
(* run one after another with nothing in between, the render nodes are     *)
(* exactly the root nodes afterwards and the expanded set is empty.        *)
(***************************************************************************)
RootIds == {id \in RegistryIds : ~Truthy(MapGet(allNodes, id).parentId)}

AllCollapsed(v) ==
  /\ Range(v.nodes) = RootIds
  /\ \A id \in RootIds : Cardinality({i \in 1..Len(v.nodes) : v.nodes[i] = id}) = 1
  /\ v.expanded = <<>>

CollapseAllShowsRootsOnly ==
  [][(collapseAll /\ timers = <<>>) =>
       AllCollapsed(afterBatches(allNodes, [nodes |-> nodes, expanded |-> expandedNodes],
                                 timers', 1))]_vars

====
